---- MODULE Spec2Model ----
(***************************************************************************)
(* Model of the masonry stride planner (src/utils/strideCalculator.ts) and *)
(* of the bond-pattern layout generator it consumes.                       *)
(*                                                                         *)
(* Units.  Horizontal quantities (x, length, wallWidth, envWidth) are in   *)
(* millimetres.  Vertical quantities (y, wallHeight, envHeight,            *)
(* BRICK_HEIGHT, COURSE_HEIGHT) are in 1/YScale millimetres, because the   *)
(* course height is 62.5 mm.  The code never mixes the two axes.           *)
(* The support threshold length * 0.9 is compared as 10*total >= 9*length; *)
(* for integer lengths and totals the IEEE comparison agrees with it.      *)
(***************************************************************************)
EXTENDS Integers, Sequences, FiniteSets

(* ----------------------------- constants ------------------------------- *)
YScale == 2
FULL_BRICK_LENGTH == 210
HALF_BRICK_LENGTH == 100
BRICK_HEIGHT == 50 * YScale
HEAD_JOINT == 10
COURSE_HEIGHT == (625 * YScale) \div 10
CUSTOM_BRICK_ECB1_LENGTH == 40
CUSTOM_BRICK_FLEMISH_HEADER_LENGTH == 45

BondType == {"stretcher", "english_cross", "flemish"}

\* The component's default envelope
ROBOT_WIDTH == 800
ROBOT_HEIGHT == 1300 * YScale

(* ------------------------------- bounds -------------------------------- *)
MaxCourses == 4
MaxWallHundreds == 5

WallWidths == {100 * k : k \in 1..MaxWallHundreds} \cup {150, 215, 250}
WallHeights == {c * COURSE_HEIGHT : c \in 1..MaxCourses} \cup {50 * YScale, 3 * COURSE_HEIGHT + 50}
EnvWidths == {100, 210, 300, 800}
EnvHeights == {40 * YScale, 50 * YScale, 225, 1300 * YScale}

(* ------------------------ generic sequence helpers --------------------- *)
\* The comparators the code passes to Array.prototype.sort, as "a sorts
\* strictly before b" (comparator(a, b) < 0).
\*   "x"   : (a, b) => a.x - b.x                              (support bricks)
\*   "yx"  : (a, b) => a.y !== b.y ? a.y - b.y : a.x - b.x    (potential bricks)
\*   "num" : (a, b) => a - b                                  (candidate X)
sortsBefore(cmp, a, b) ==
    CASE cmp = "x" -> a.x < b.x
      [] cmp = "yx" -> IF a.y # b.y THEN a.y < b.y ELSE a.x < b.x
      [] cmp = "num" -> a < b

\* Array.prototype.sort: a stable insertion sort.
RECURSIVE InsertSorted(_, _, _)
InsertSorted(e, s, cmp) ==
    IF s = <<>> THEN <<e>>
    ELSE IF sortsBefore(cmp, e, s[Len(s)])
         THEN InsertSorted(e, SubSeq(s, 1, Len(s) - 1), cmp) \o <<s[Len(s)]>>
         ELSE s \o <<e>>

RECURSIVE sortBy(_, _)
sortBy(s, cmp) ==
    IF s = <<>> THEN <<>>
    ELSE InsertSorted(s[Len(s)], sortBy(SubSeq(s, 1, Len(s) - 1), cmp), cmp)

Min2(a, b) == IF a <= b THEN a ELSE b
Max2(a, b) == IF a >= b THEN a ELSE b

(* --------------------------- layout generator -------------------------- *)
\* Mutant of FullHalfOrEnd: the half-brick step is skipped.
FullHalfOrEnd_noHalf(remainingRowLength) ==
    IF remainingRowLength >= FULL_BRICK_LENGTH
    THEN [type |-> "full", length |-> FULL_BRICK_LENGTH]
    ELSE [type |-> "custom_end", length |-> remainingRowLength]

\* full -> half -> wall-edge cut piece
FullHalfOrEnd(remainingRowLength) ==
    IF remainingRowLength >= FULL_BRICK_LENGTH
    THEN [type |-> "full", length |-> FULL_BRICK_LENGTH]
    ELSE IF remainingRowLength >= HALF_BRICK_LENGTH
    THEN [type |-> "half", length |-> HALF_BRICK_LENGTH]
    ELSE [type |-> "custom_end", length |-> remainingRowLength]

\* Mutant of HalfOrEnd: a full brick is tried first.
HalfOrEnd_fullFirst(remainingRowLength) ==
    FullHalfOrEnd(remainingRowLength)

\* Mutant of HalfOrEnd: a half brick is laid whatever span remains.
HalfOrEnd_noCut(remainingRowLength) ==
    [type |-> "half", length |-> HALF_BRICK_LENGTH]

\* half -> wall-edge cut piece
HalfOrEnd(remainingRowLength) ==
    IF remainingRowLength >= HALF_BRICK_LENGTH
    THEN [type |-> "half", length |-> HALF_BRICK_LENGTH]
    ELSE [type |-> "custom_end", length |-> remainingRowLength]

\* Mutant of CustomOrEnd: a half brick is laid instead of the closer.
CustomOrEnd_half(remainingRowLength, type, length) ==
    HalfOrEnd(remainingRowLength)

\* fixed-length closer/header -> wall-edge cut piece
CustomOrEnd(remainingRowLength, type, length) ==
    IF remainingRowLength >= length
    THEN [type |-> type, length |-> length]
    ELSE [type |-> "custom_end", length |-> remainingRowLength]

\* The brick chosen at one cursor position of one course.
brickToPlace(bondType, courseIndex, brickInCourseIndex, remainingRowLength) ==
    CASE bondType = "stretcher" ->
           IF courseIndex % 2 # 0 /\ brickInCourseIndex = 0
           THEN HalfOrEnd(remainingRowLength)
           ELSE FullHalfOrEnd(remainingRowLength)
      [] bondType = "english_cross" ->
           LET patternType == courseIndex % 4 IN
           IF patternType = 0 THEN FullHalfOrEnd(remainingRowLength)
           ELSE IF patternType = 1 \/ patternType = 3
           THEN IF brickInCourseIndex = 0
                THEN CustomOrEnd(remainingRowLength, "custom_40", CUSTOM_BRICK_ECB1_LENGTH)
                ELSE HalfOrEnd(remainingRowLength)
           ELSE IF brickInCourseIndex = 0
                THEN HalfOrEnd(remainingRowLength)
                ELSE FullHalfOrEnd(remainingRowLength)
      [] bondType = "flemish" ->
           IF courseIndex % 2 = 0
           THEN IF brickInCourseIndex % 2 = 0
                THEN FullHalfOrEnd(remainingRowLength)
                ELSE HalfOrEnd(remainingRowLength)
           ELSE IF brickInCourseIndex = 0
                THEN CustomOrEnd(remainingRowLength, "custom_45",
                                 CUSTOM_BRICK_FLEMISH_HEADER_LENGTH)
                ELSE IF (brickInCourseIndex - 1) % 2 = 0
                THEN HalfOrEnd(remainingRowLength)
                ELSE FullHalfOrEnd(remainingRowLength)

\* Mutant of advanceCursor: no head joint is ever added.
advanceCursor_noJoint(currentX, length, wallWidth) ==
    currentX + length

\* The cursor after a brick: a head joint follows unless the brick reaches
\* (or passes) the wall's right edge.
advanceCursor(currentX, length, wallWidth) ==
    IF currentX + length < wallWidth
    THEN currentX + length + HEAD_JOINT
    ELSE currentX + length

\* Mutant of newBrick: the two parts of the id are swapped.
newBrick_idSwapped(currentX, courseIndex, brickInCourseIndex, b) ==
    [x |-> currentX,
     y |-> courseIndex * COURSE_HEIGHT,
     type |-> b.type,
     length |-> b.length,
     strideIndex |-> -1,
     orderInStride |-> -1,
     id |-> <<brickInCourseIndex, courseIndex>>]

\* generatedBricks.push({...}); the id `brick-${courseIndex}-${brickInCourseIndex}`
\* is modelled as the pair <<courseIndex, brickInCourseIndex>>: both numbers
\* are non-negative and the template separates them with "-", so two ids are
\* the same string exactly when the pairs are equal.
newBrick(currentX, courseIndex, brickInCourseIndex, b) ==
    [x |-> currentX,
     y |-> courseIndex * COURSE_HEIGHT,
     type |-> b.type,
     length |-> b.length,
     strideIndex |-> -1,
     orderInStride |-> -1,
     id |-> <<courseIndex, brickInCourseIndex>>]

\* The inner while loop of one course.
RECURSIVE layCourse(_, _, _, _, _)
layCourse(bondType, wallWidth, courseIndex, currentX, brickInCourseIndex) ==
    IF ~(currentX < wallWidth) THEN <<>>
    ELSE LET remainingRowLength == wallWidth - currentX
             b == brickToPlace(bondType, courseIndex, brickInCourseIndex,
                               remainingRowLength)
         IN  <<newBrick(currentX, courseIndex, brickInCourseIndex, b)>>
             \o layCourse(bondType, wallWidth, courseIndex,
                          advanceCursor(currentX, b.length, wallWidth),
                          brickInCourseIndex + 1)

\* The outer for loop over the courses courseIndex .. numCourses - 1.
RECURSIVE layCourses(_, _, _, _)
layCourses(bondType, wallWidth, courseIndex, numCourses) ==
    IF ~(courseIndex < numCourses) THEN <<>>
    ELSE layCourse(bondType, wallWidth, courseIndex, 0, 0)
         \o layCourses(bondType, wallWidth, courseIndex + 1, numCourses)

\* Mutant of numCoursesOf: rounds up instead of down.
numCoursesOf_ceil(wallHeight) ==
    (wallHeight + COURSE_HEIGHT - 1) \div COURSE_HEIGHT

\* Mutant of numCoursesOf: never fewer than one course.
numCoursesOf_atLeastOne(wallHeight) ==
    Max2(1, wallHeight \div COURSE_HEIGHT)

\* Math.floor(wallHeight / COURSE_HEIGHT)
numCoursesOf(wallHeight) == wallHeight \div COURSE_HEIGHT

generateInitialBrickLayout(bondType, wallWidth, wallHeight) ==
    layCourses(bondType, wallWidth, 0, numCoursesOf(wallHeight))

(* ------------------------------ support test --------------------------- *)
\* Mutant of overlapLength: the support's whole length is counted, not only
\* the part under the brick.
overlapLength_unclipped(support, brick) ==
    support.length

\* Overlap of one supporting brick with the span [brick.x, brickEndX).
overlapLength(support, brick) ==
    LET overlapStart == Max2(support.x, brick.x)
        overlapEnd == Min2(support.x + support.length, brick.x + brick.length)
    IN  IF overlapEnd > overlapStart THEN overlapEnd - overlapStart ELSE 0

RECURSIVE sumOverlaps(_, _)
sumOverlaps(supports, brick) ==
    IF supports = <<>> THEN 0
    ELSE overlapLength(Head(supports), brick) + sumOverlaps(Tail(supports), brick)

\* Bricks of the course directly below that overlap the brick's span and are
\* placed globally or earlier in the current stride.
supportingBricksBelow(brick, globallyPlacedBricks, bricksAlreadyInCurrentStride, all) ==
    LET brickEndX == brick.x + brick.length
        keeps(c) ==
            /\ c.y = brick.y - COURSE_HEIGHT
            /\ c.x < brickEndX /\ c.x + c.length > brick.x
            /\ \/ c.id \in globallyPlacedBricks
               \/ \E i \in 1..Len(bricksAlreadyInCurrentStride) :
                     bricksAlreadyInCurrentStride[i].id = c.id
    IN  SelectSeq(all, keeps)

\* Mutant of hasRequiredSupport: the 25% threshold the code's comment mentions.
hasRequiredSupport_quarter(totalActualSupportLength, length) ==
    4 * totalActualSupportLength >= length

\* Mutant of hasRequiredSupport: the whole length must be supported.
hasRequiredSupport_full(totalActualSupportLength, length) ==
    totalActualSupportLength >= length

\* Mutant of hasRequiredSupport: half of the length is enough.
hasRequiredSupport_half(totalActualSupportLength, length) ==
    2 * totalActualSupportLength >= length

\* requiredSupportLength = brick.length * 0.9
hasRequiredSupport(totalActualSupportLength, length) ==
    10 * totalActualSupportLength >= 9 * length

isBrickSupported(brick, globallyPlacedBricks, bricksAlreadyInCurrentStride, all) ==
    IF brick.y = 0 THEN TRUE
    ELSE LET sortedActualSupports ==
                 sortBy(supportingBricksBelow(brick, globallyPlacedBricks,
                            bricksAlreadyInCurrentStride, all), "x")
         IN  hasRequiredSupport(sumOverlaps(sortedActualSupports, brick),
                                brick.length)

(* -------------------------------- planner ------------------------------ *)
VARIABLES
    bondType, wallWidth, wallHeight,  \* arguments of generateInitialBrickLayout
    envWidth, envHeight,              \* arguments of calculateWallStrides
    allWallBricks,                    \* the input brick list
    globallyPlacedBrickIds,           \* Set<string> of committed ids
    calculatedStrides,                \* Stride[]
    calculatedEnvelopes,              \* Record<number, StrideMeta>, keys 0..n-1
    strideIndexCounter,
    pc,                               \* "loop" inside the while, "returned" after;
                                      \* "layout" / "laid" in the generator
    iterations,                       \* history: what each loop iteration saw
    courseIndex, currentX, brickInCourseIndex,  \* locals of the generator
    testedBrick, strideSoFar, supportVerdict,   \* one call of isBrickSupported
    isRecalculating, strides, strideEnvelopes,  \* MasonryWall component state
    pendingTimeouts,                  \* timers set by the effect, not yet fired
    effectDue,                        \* a render changed the effect's dependencies
    effectRuns, changes,              \* how often the effect ran / inputs changed
    firedTimeouts, clearedTimeouts    \* history: ids of timers fired / cleared

vars == <<bondType, wallWidth, wallHeight, envWidth, envHeight, allWallBricks,
          globallyPlacedBrickIds, calculatedStrides, calculatedEnvelopes,
          strideIndexCounter, pc, iterations,
          courseIndex, currentX, brickInCourseIndex,
          testedBrick, strideSoFar, supportVerdict,
          isRecalculating, strides, strideEnvelopes, pendingTimeouts,
          effectDue, effectRuns, changes, firedTimeouts, clearedTimeouts>>

layoutLocals == <<courseIndex, currentX, brickInCourseIndex>>

supportLocals == <<testedBrick, strideSoFar, supportVerdict>>

componentState == <<isRecalculating, strides, strideEnvelopes, pendingTimeouts,
                    effectDue, effectRuns, changes, firedTimeouts, clearedTimeouts>>

\* No call of isBrickSupported on its own is in progress.
supportIdle ==
    /\ testedBrick = <<>>
    /\ strideSoFar = <<>>
    /\ supportVerdict = "none"

\* No component is mounted.
componentIdle ==
    /\ isRecalculating = FALSE
    /\ strides = <<>>
    /\ strideEnvelopes = <<>>
    /\ pendingTimeouts = {}
    /\ effectDue = FALSE
    /\ effectRuns = 0
    /\ changes = 0
    /\ firedTimeouts = {}
    /\ clearedTimeouts = {}

inputs == <<bondType, wallWidth, wallHeight, envWidth, envHeight, allWallBricks,
            layoutLocals, supportLocals, componentState>>

idsOf(bricks) == {bricks[i].id : i \in 1..Len(bricks)}
idSeq(bricks) == [i \in 1..Len(bricks) |-> bricks[i].id]

\* Mutant of unplacedBricks: the filter keeps every brick.
unplacedBricks_noFilter(all, placedIds) == all

\* allWallBricks.filter((b) => !globallyPlacedBrickIds.has(b.id))
unplacedBricks(all, placedIds) ==
    LET isUnplaced(b) == b.id \notin placedIds
    IN  SelectSeq(all, isUnplaced)

\* unplacedBricks.reduce((min, b) => Math.min(min, b.y), Infinity); it is
\* only evaluated on a non-empty list (the loop breaks on an empty one).
bottomMostY(unplaced) ==
    CHOOSE y \in {unplaced[i].y : i \in 1..Len(unplaced)} :
        \A i \in 1..Len(unplaced) : y <= unplaced[i].y

\* Mutant of clampStartX: the upper clamp wallWidth - envWidth is missing.
clampStartX_noUpper(x, wallW, envW) == Max2(0, x)

\* Math.max(0, Math.min(x, wallWidth - envWidth))
clampStartX(x, wallW, envW) == Max2(0, Min2(x, wallW - envW))

\* Mutant of candidateRobotStartXSet: bricks of every course contribute.
candidateRobotStartXSet_allCourses(unplaced, bottomY, wallW, envW) ==
    UNION {{clampStartX(unplaced[i].x, wallW, envW),
            clampStartX(unplaced[i].x + unplaced[i].length - envW, wallW, envW)} :
           i \in 1..Len(unplaced)}

\* Two start-X options per unplaced brick of the bottom-most course.
candidateRobotStartXSet(unplaced, bottomY, wallW, envW) ==
    UNION {{clampStartX(unplaced[i].x, wallW, envW),
            clampStartX(unplaced[i].x + unplaced[i].length - envW, wallW, envW)} :
           i \in {j \in 1..Len(unplaced) : unplaced[j].y = bottomY}}

\* Array.from(set).sort((a, b) => a - b)
RECURSIVE setToSeq(_)
setToSeq(S) ==
    IF S = {} THEN <<>>
    ELSE LET e == CHOOSE v \in S : TRUE IN <<e>> \o setToSeq(S \ {e})

candidateRobotStartXPositions(unplaced, bottomY, wallW, envW) ==
    sortBy(setToSeq(candidateRobotStartXSet(unplaced, bottomY, wallW, envW)), "num")

\* Mutant of isReachable: the right edge is tested on b.x, not b.x + b.length.
isReachable_leftEdgeOnly(b, candidateStartX, candidateStartY, envW, envH) ==
    /\ b.x >= candidateStartX
    /\ b.x <= candidateStartX + envW
    /\ b.y >= candidateStartY
    /\ b.y + BRICK_HEIGHT <= candidateStartY + envH

\* Mutant of isReachable: the right edge is compared with < instead of <=.
isReachable_strictRight(b, candidateStartX, candidateStartY, envW, envH) ==
    /\ b.x >= candidateStartX
    /\ b.x + b.length < candidateStartX + envW
    /\ b.y >= candidateStartY
    /\ b.y + BRICK_HEIGHT <= candidateStartY + envH

\* The containment test of the filter at lines 136-143.
isReachable(b, candidateStartX, candidateStartY, envW, envH) ==
    /\ b.x >= candidateStartX
    /\ b.x + b.length <= candidateStartX + envW
    /\ b.y >= candidateStartY
    /\ b.y + BRICK_HEIGHT <= candidateStartY + envH

horizontallyReachableUnplaced(unplaced, candidateStartX, candidateStartY, envW, envH) ==
    LET fits(b) == isReachable(b, candidateStartX, candidateStartY, envW, envH)
    IN  SelectSeq(unplaced, fits)

\* Mutant of potentialBricksForOption: sorted left to right only.
potentialBricksForOption_byXOnly(reachable) == sortBy(reachable, "x")

potentialBricksForOption(reachable) == sortBy(reachable, "yx")

\* The admission loop: push every potential brick that passes the support
\* test against the global set and the bricks pushed so far.
RECURSIVE admitSupported(_, _, _, _)
admitSupported(potential, attempt, placedIds, all) ==
    IF potential = <<>> THEN attempt
    ELSE IF isBrickSupported(Head(potential), placedIds, attempt, all)
         THEN admitSupported(Tail(potential), Append(attempt, Head(potential)),
                             placedIds, all)
         ELSE admitSupported(Tail(potential), attempt, placedIds, all)

tempCurrentStrideAttempt(candidateStartX, candidateStartY, unplaced, placedIds, all, envW, envH) ==
    admitSupported(
        potentialBricksForOption(
            horizontallyReachableUnplaced(unplaced, candidateStartX, candidateStartY,
                                          envW, envH)),
        <<>>, placedIds, all)

\* Mutant of replacesBest: >= lets a later candidate win a tie.
replacesBest_orEqual(attemptLength, bestCount) == attemptLength >= bestCount

\* tempCurrentStrideAttempt.length > bestStrideOption.count
replacesBest(attemptLength, bestCount) == attemptLength > bestCount

\* The for loop over the candidates, folded over their evaluated attempts.
RECURSIVE scanOptions(_, _)
scanOptions(options, best) ==
    IF options = <<>> THEN best
    ELSE IF replacesBest(Head(options).count, best.count)
         THEN scanOptions(Tail(options), Head(options))
         ELSE scanOptions(Tail(options), best)

noStrideOption == [startX |-> -1, startY |-> -1, bricks |-> <<>>, count |-> -1]

\* Mutant of fallbackBrick: the last unplaced brick.
fallbackBrick_last(unplaced) == unplaced[Len(unplaced)]

\* unplacedBricks[0]
fallbackBrick(unplaced) == unplaced[1]

fallbackOption(unplaced, wallW, envW) ==
    LET fb == fallbackBrick(unplaced)
    IN  [startX |-> clampStartX(fb.x, wallW, envW),
         startY |-> fb.y,
         bricks |-> <<fb>>,
         count |-> 1]

\* Mutant of finalCurrentStride: orderInStride counted from one.
finalCurrentStride_orderFromOne(bricks, counter) ==
    [i \in 1..Len(bricks) |->
        [bricks[i] EXCEPT !.strideIndex = counter, !.orderInStride = i]]

\* Copies of the chosen bricks carrying strideIndex and orderInStride.
finalCurrentStride(bricks, counter) ==
    [i \in 1..Len(bricks) |->
        [bricks[i] EXCEPT !.strideIndex = counter, !.orderInStride = i - 1]]

\* Mutant of inputAfterCommit: the stride is stamped without being copied,
\* so the writes land on the input's own brick objects.
inputAfterCommit_stamped(all, bricks, counter) ==
    [i \in 1..Len(all) |->
        IF all[i].id \in idsOf(bricks)
        THEN [all[i] EXCEPT !.strideIndex = counter]
        ELSE all[i]]

\* The input list after a commit: bestStrideOption.bricks.map((b) => ({...b}))
\* copies every brick before it is stamped, and every filter / sort works on
\* a new array, so no write reaches the input list or its bricks.
inputAfterCommit(all, bricks, counter) == all

\* Mutant of addPlaced: only the first brick of the stride is marked placed.
addPlaced_firstOnly(placedIds, stride) == placedIds \cup {stride[1].id}

\* Mutant of addPlaced: the set is rebuilt from the current stride alone.
addPlaced_onlyCurrent(placedIds, stride) == idsOf(stride)

\* globallyPlacedBrickIds.add(b.id) for every brick of the stride
addPlaced(placedIds, stride) == placedIds \cup idsOf(stride)

\* Mutant of strideEnvelope: the envelope is anchored on the foundation.
strideEnvelope_onFoundation(option, envW, envH) ==
    [minX |-> option.startX,
     minY |-> 0,
     maxX |-> option.startX + envW,
     maxY |-> envH]

strideEnvelope(option, envW, envH) ==
    [minX |-> option.startX,
     minY |-> option.startY,
     maxX |-> option.startX + envW,
     maxY |-> option.startY + envH]

(* Values of the current loop iteration, from the current state. *)
curUnplaced == unplacedBricks(allWallBricks, globallyPlacedBrickIds)
curBottomY == bottomMostY(curUnplaced)
curPositions == candidateRobotStartXPositions(curUnplaced, curBottomY, wallWidth, envWidth)
curOptions ==
    [i \in 1..Len(curPositions) |->
        LET attempt == tempCurrentStrideAttempt(curPositions[i], curBottomY, curUnplaced,
                           globallyPlacedBrickIds, allWallBricks, envWidth, envHeight)
        IN  [startX |-> curPositions[i], startY |-> curBottomY,
             bricks |-> attempt, count |-> Len(attempt)]]
bestStrideOption == scanOptions(curOptions, noStrideOption)

\* while (globallyPlacedBrickIds.size < allWallBricks.length) and the
\* break on an empty unplaced list
loopContinues ==
    /\ Cardinality(globallyPlacedBrickIds) < Len(allWallBricks)
    /\ curUnplaced # <<>>

\* Lines 187-209: copy, stamp, mark placed, record envelope, push, advance.
commit(option, usedFallback) ==
    LET stride == finalCurrentStride(option.bricks, strideIndexCounter)
        entry == [bottomMostY |-> curBottomY,
                  placedBefore |-> globallyPlacedBrickIds,
                  options |-> [i \in 1..Len(curOptions) |->
                                  [startX |-> curOptions[i].startX,
                                   ids |-> idSeq(curOptions[i].bricks)]],
                  fallback |-> usedFallback]
    IN  /\ iterations' = Append(iterations, entry)
        /\ IF Len(stride) > 0
           THEN /\ globallyPlacedBrickIds' = addPlaced(globallyPlacedBrickIds, stride)
                /\ calculatedEnvelopes' =
                       [k \in 0..strideIndexCounter |->
                           IF k = strideIndexCounter
                           THEN strideEnvelope(option, envWidth, envHeight)
                           ELSE calculatedEnvelopes[k]]
                /\ calculatedStrides' = Append(calculatedStrides, stride)
                /\ strideIndexCounter' = strideIndexCounter + 1
           ELSE UNCHANGED <<globallyPlacedBrickIds, calculatedEnvelopes,
                            calculatedStrides, strideIndexCounter>>
        /\ allWallBricks' = inputAfterCommit(allWallBricks, option.bricks,
                                              strideIndexCounter)
        /\ UNCHANGED <<bondType, wallWidth, wallHeight, envWidth, envHeight,
                       layoutLocals, supportLocals, componentState, pc>>

\* One loop iteration whose best candidate admits at least one brick.
CommitCandidateStride ==
    /\ pc = "loop"
    /\ loopContinues
    /\ bestStrideOption.count > 0
    /\ commit(bestStrideOption, FALSE)

\* One loop iteration that takes the fallback (bestStrideOption.count <= 0).
CommitFallbackStride ==
    /\ pc = "loop"
    /\ loopContinues
    /\ bestStrideOption.count <= 0
    /\ commit(fallbackOption(curUnplaced, wallWidth, envWidth), TRUE)

\* return { strides, envelopes }
ReturnResult ==
    /\ pc = "loop"
    /\ ~loopContinues
    /\ pc' = "returned"
    /\ UNCHANGED <<inputs, globallyPlacedBrickIds, calculatedStrides,
                   calculatedEnvelopes, strideIndexCounter, iterations>>

plannerStart ==
    /\ globallyPlacedBrickIds = {}
    /\ calculatedStrides = <<>>
    /\ calculatedEnvelopes = <<>>
    /\ strideIndexCounter = 0
    /\ pc = "loop"
    /\ iterations = <<>>

\* The generator has returned: its for loop ran to the end.
layoutReturned ==
    /\ courseIndex = Max2(0, numCoursesOf(wallHeight))
    /\ currentX = 0
    /\ brickInCourseIndex = 0

\* The component's call: generate the layout, then plan it.
Init ==
    /\ bondType \in BondType
    /\ wallWidth \in WallWidths
    /\ wallHeight \in WallHeights
    /\ envWidth \in EnvWidths
    /\ envHeight \in EnvHeights
    /\ allWallBricks = generateInitialBrickLayout(bondType, wallWidth, wallHeight)
    /\ layoutReturned
    /\ plannerStart
    /\ supportIdle
    /\ componentIdle

\* calculateWallStrides called on the same bricks in another list order.
reversed(seq) == [i \in 1..Len(seq) |-> seq[Len(seq) + 1 - i]]

InitAnyOrder ==
    /\ bondType \in BondType
    /\ wallWidth \in WallWidths
    /\ wallHeight \in WallHeights
    /\ envWidth \in EnvWidths
    /\ envHeight \in EnvHeights
    /\ \E layout \in {generateInitialBrickLayout(bondType, wallWidth, wallHeight)} :
          allWallBricks \in {layout, reversed(layout)}
    /\ layoutReturned
    /\ plannerStart
    /\ supportIdle
    /\ componentIdle

Next == CommitCandidateStride \/ CommitFallbackStride \/ ReturnResult

Spec == Init /\ [][Next]_vars

SpecAnyOrder == InitAnyOrder /\ [][Next]_vars

(* ------------------ calculateWallStrides as one call ------------------- *)
\* The whole while loop, for callers that use the function's result: every
\* iteration is the iteration of CommitCandidateStride / CommitFallbackStride.
RECURSIVE planLoop(_, _, _, _, _, _, _, _)
planLoop(all, envW, envH, wallW, placedIds, stridesSoFar, envelopesSoFar, counter) ==
    LET unplaced == unplacedBricks(all, placedIds) IN
    IF ~(Cardinality(placedIds) < Len(all)) \/ unplaced = <<>>
    THEN [strides |-> stridesSoFar, envelopes |-> envelopesSoFar]
    ELSE LET bottomY == bottomMostY(unplaced)
             positions == candidateRobotStartXPositions(unplaced, bottomY, wallW, envW)
             options ==
                 [i \in 1..Len(positions) |->
                     LET attempt == tempCurrentStrideAttempt(positions[i], bottomY,
                                        unplaced, placedIds, all, envW, envH)
                     IN  [startX |-> positions[i], startY |-> bottomY,
                          bricks |-> attempt, count |-> Len(attempt)]]
             best == scanOptions(options, noStrideOption)
             chosen == IF best.count <= 0
                       THEN fallbackOption(unplaced, wallW, envW)
                       ELSE best
             stride == finalCurrentStride(chosen.bricks, counter)
         IN  planLoop(all, envW, envH, wallW,
                      addPlaced(placedIds, stride),
                      Append(stridesSoFar, stride),
                      [k \in 0..counter |->
                          IF k = counter THEN strideEnvelope(chosen, envW, envH)
                          ELSE envelopesSoFar[k]],
                      counter + 1)

calculateWallStrides(all, envW, envH, wallW) ==
    planLoop(all, envW, envH, wallW, {}, <<>>, <<>>, 0)

\* The loop run step by step returns the result of the single call.
PlanAgrees ==
    pc = "returned" =>
        calculateWallStrides(allWallBricks, envWidth, envHeight, wallWidth)
            = [strides |-> calculatedStrides, envelopes |-> calculatedEnvelopes]

\* calculateWallStrides called with any envelope size, zero and negative
\* included (the function itself does not validate its arguments).
AnyEnvWidths == EnvWidths \cup {0 - HALF_BRICK_LENGTH, 0}

AnyEnvHeights == EnvHeights \cup {0 - BRICK_HEIGHT, 0}

InitAnyEnvelope ==
    /\ bondType \in BondType
    /\ wallWidth \in WallWidths
    /\ wallHeight \in WallHeights
    /\ envWidth \in AnyEnvWidths
    /\ envHeight \in AnyEnvHeights
    /\ allWallBricks = generateInitialBrickLayout(bondType, wallWidth, wallHeight)
    /\ layoutReturned
    /\ plannerStart
    /\ supportIdle
    /\ componentIdle

SpecAnyEnvelope == InitAnyEnvelope /\ [][Next]_vars

(* ------------------------ isBrickSupported alone ----------------------- *)
\* One call of isBrickSupported on a generated layout, for any brick of it,
\* any committed set and any bricks already admitted to the current stride.
\* Only bricks of one course matter to the answer: the course below the
\* brick (its own course when it lies on the foundation).
SupportHeights == {MaxCourses * COURSE_HEIGHT}

courseThatMatters(b) == IF b.y = 0 THEN 0 ELSE b.y - COURSE_HEIGHT

InitSupport ==
    /\ bondType \in BondType
    /\ wallWidth \in WallWidths
    /\ wallHeight \in SupportHeights
    /\ envWidth = ROBOT_WIDTH
    /\ envHeight = ROBOT_HEIGHT
    /\ allWallBricks = generateInitialBrickLayout(bondType, wallWidth, wallHeight)
    /\ layoutReturned
    /\ \E i \in 1..Len(allWallBricks) : testedBrick = allWallBricks[i]
    /\ \E placed \in SUBSET {allWallBricks[i].id : i \in
                     {j \in 1..Len(allWallBricks) :
                         /\ allWallBricks[j].y = courseThatMatters(testedBrick)
                         /\ allWallBricks[j] # testedBrick}} :
          /\ globallyPlacedBrickIds = placed
          /\ \E local \in SUBSET {allWallBricks[i].id : i \in
                          {j \in 1..Len(allWallBricks) :
                              /\ allWallBricks[j].y = courseThatMatters(testedBrick)
                              /\ allWallBricks[j] # testedBrick
                              /\ allWallBricks[j].id \notin placed}} :
                strideSoFar = SelectSeq(allWallBricks, LAMBDA b : b.id \in local)
    /\ supportVerdict = "none"
    /\ calculatedStrides = <<>>
    /\ calculatedEnvelopes = <<>>
    /\ strideIndexCounter = 0
    /\ iterations = <<>>
    /\ componentIdle
    /\ pc = "support"

CallIsBrickSupported ==
    /\ pc = "support"
    /\ supportVerdict' = isBrickSupported(testedBrick, globallyPlacedBrickIds,
                                          strideSoFar, allWallBricks)
    /\ pc' = "answered"
    /\ UNCHANGED <<bondType, wallWidth, wallHeight, envWidth, envHeight,
                   allWallBricks, layoutLocals, testedBrick, strideSoFar,
                   globallyPlacedBrickIds, calculatedStrides, calculatedEnvelopes,
                   strideIndexCounter, iterations, componentState>>

NextSupport == CallIsBrickSupported

SpecSupport == InitSupport /\ [][NextSupport]_vars

(* ------------------- layout generator, step by step -------------------- *)
\* generateInitialBrickLayout run one loop iteration at a time; the list it
\* builds is allWallBricks, the list the component hands to the planner.
LayoutWidths == {5 * k : k \in 1..(20 * MaxWallHundreds)}

\* Heights up to two periods of the four-course English cross cycle, and two
\* that are not a whole number of courses (Math.floor).
LayoutHeights ==
    {c * COURSE_HEIGHT : c \in 1..(2 * MaxCourses)}
        \cup {50 * YScale, 3 * COURSE_HEIGHT + 50}

plannerIdle == <<envWidth, envHeight, globallyPlacedBrickIds, calculatedStrides,
                 calculatedEnvelopes, strideIndexCounter, iterations,
                 supportLocals, componentState>>

InitLayout ==
    /\ bondType \in BondType
    /\ wallWidth \in LayoutWidths
    /\ wallHeight \in LayoutHeights
    /\ envWidth = ROBOT_WIDTH
    /\ envHeight = ROBOT_HEIGHT
    /\ allWallBricks = <<>>
    /\ courseIndex = 0
    /\ currentX = 0
    /\ brickInCourseIndex = 0
    /\ globallyPlacedBrickIds = {}
    /\ calculatedStrides = <<>>
    /\ calculatedEnvelopes = <<>>
    /\ strideIndexCounter = 0
    /\ iterations = <<>>
    /\ pc = "layout"
    /\ supportIdle
    /\ componentIdle

\* One iteration of the inner while loop: choose a brick, push it, advance.
PlaceBrick ==
    /\ pc = "layout"
    /\ courseIndex < numCoursesOf(wallHeight)
    /\ currentX < wallWidth
    /\ LET remainingRowLength == wallWidth - currentX
           b == brickToPlace(bondType, courseIndex, brickInCourseIndex,
                             remainingRowLength)
       IN  /\ allWallBricks' =
                  Append(allWallBricks,
                         newBrick(currentX, courseIndex, brickInCourseIndex, b))
           /\ currentX' = advanceCursor(currentX, b.length, wallWidth)
           /\ brickInCourseIndex' = brickInCourseIndex + 1
    /\ UNCHANGED <<bondType, wallWidth, wallHeight, courseIndex, pc, plannerIdle>>

\* The inner while loop ends (currentX >= wallWidth): next courseIndex.
EndCourse ==
    /\ pc = "layout"
    /\ courseIndex < numCoursesOf(wallHeight)
    /\ ~(currentX < wallWidth)
    /\ courseIndex' = courseIndex + 1
    /\ currentX' = 0
    /\ brickInCourseIndex' = 0
    /\ UNCHANGED <<bondType, wallWidth, wallHeight, allWallBricks, pc, plannerIdle>>

\* The for loop ends: return generatedBricks.
ReturnLayout ==
    /\ pc = "layout"
    /\ ~(courseIndex < numCoursesOf(wallHeight))
    /\ pc' = "laid"
    /\ UNCHANGED <<inputs, plannerIdle>>

NextLayout == PlaceBrick \/ EndCourse \/ ReturnLayout

SpecLayout == InitLayout /\ [][NextLayout]_vars

\* generateInitialBrickLayout called with any wall size, zero and negative
\* included (the function itself does not validate its arguments).
AnyLayoutWidths == {HALF_BRICK_LENGTH * k : k \in (0 - 1)..MaxWallHundreds}

AnyLayoutHeights ==
    {c * COURSE_HEIGHT : c \in (0 - 1)..MaxCourses}
        \cup {0 - 1, COURSE_HEIGHT - 1}

InitAnyLayout ==
    /\ bondType \in BondType
    /\ wallWidth \in AnyLayoutWidths
    /\ wallHeight \in AnyLayoutHeights
    /\ envWidth = ROBOT_WIDTH
    /\ envHeight = ROBOT_HEIGHT
    /\ allWallBricks = <<>>
    /\ courseIndex = 0
    /\ currentX = 0
    /\ brickInCourseIndex = 0
    /\ globallyPlacedBrickIds = {}
    /\ calculatedStrides = <<>>
    /\ calculatedEnvelopes = <<>>
    /\ strideIndexCounter = 0
    /\ iterations = <<>>
    /\ pc = "layout"
    /\ supportIdle
    /\ componentIdle

SpecAnyLayout == InitAnyLayout /\ [][NextLayout]_vars

\* The step-by-step run returns the list of the recursive definition.
LayoutAgrees ==
    pc = "laid" =>
        allWallBricks = generateInitialBrickLayout(bondType, wallWidth, wallHeight)

(* ======================================================================= *)
(*                               Properties                                *)
(* ======================================================================= *)
strideCount == Len(calculatedStrides)
StrideRange == 1..strideCount

\* Each loop iteration so far pushed exactly one stride.
historyAligned == Len(iterations) = strideCount /\ strideIndexCounter = strideCount

\* calculatedEnvelopes[k - 1], the envelope of the k-th stride (1-based k)
envelopeOfStride(k) == calculatedEnvelopes[k - 1]

insideEnvelope(b, env) ==
    /\ env.minX <= b.x
    /\ b.x + b.length <= env.maxX
    /\ env.minY <= b.y
    /\ b.y + BRICK_HEIGHT <= env.maxY

\* Number of (stride, position) places of the output that hold the id.
occurrences(id) ==
    Cardinality({kj \in {<<k, j>> : k \in StrideRange, j \in 1..(Len(allWallBricks) + 1)} :
                    /\ kj[2] <= Len(calculatedStrides[kj[1]])
                    /\ calculatedStrides[kj[1]][kj[2]].id = id})

\* C1: when calculateWallStrides returns, every input brick id occurs in
\* exactly one stride and exactly once, no stride is longer than the input,
\* and the strides hold no id that is not an input id.
C1_Completeness ==
    pc = "returned" =>
        /\ \A i \in 1..Len(allWallBricks) : occurrences(allWallBricks[i].id) = 1
        /\ \A k \in StrideRange :
              /\ Len(calculatedStrides[k]) <= Len(allWallBricks)
              /\ idsOf(calculatedStrides[k]) \subseteq idsOf(allWallBricks)

\* A returned plan of several strides, one of them with several bricks.
C1_Witness ==
    /\ pc = "returned"
    /\ strideCount >= 3
    /\ \E k \in StrideRange : Len(calculatedStrides[k]) >= 3

\* C2: every iteration of the main loop pushes a non-empty stride made only
\* of bricks that were uncommitted before it, so the number of iterations
\* and of strides never exceeds the number of input bricks.
C2_LoopProgress ==
    /\ Len(iterations) <= Len(allWallBricks)
    /\ strideCount <= Len(allWallBricks)
    /\ Len(iterations) = strideCount
    /\ \A k \in StrideRange :
          /\ Len(calculatedStrides[k]) >= 1
          /\ k <= Len(iterations) =>
                idsOf(calculatedStrides[k]) \cap iterations[k].placedBefore = {}
    /\ Cardinality(globallyPlacedBrickIds) >= strideCount

\* The loop has run as many iterations as there are bricks (all singletons)
\* and has returned.
C2_Witness ==
    /\ pc = "returned"
    /\ Len(allWallBricks) >= 4
    /\ Len(iterations) = Len(allWallBricks)

\* Support total of brick i of stride k at the moment it is committed: the
\* overlap with the bricks of the course directly below that were committed
\* in an earlier stride or earlier in the same stride.
supportTotalAtCommit(k, i) ==
    LET b == calculatedStrides[k][i]
        earlier == iterations[k].placedBefore
                   \cup {calculatedStrides[k][j].id : j \in 1..(i - 1)}
        below(c) == c.y = b.y - COURSE_HEIGHT /\ c.id \in earlier
    IN  sumOverlaps(SelectSeq(allWallBricks, below), b)

supportedAtCommit(k, i) ==
    LET b == calculatedStrides[k][i]
    IN  b.y > 0 => 10 * supportTotalAtCommit(k, i) >= 9 * b.length

\* C3 as stated: every committed brick with y > 0 has, when committed, a
\* support total of at least 90% of its length.
C3_Original ==
    historyAligned =>
        \A k \in StrideRange : \A i \in 1..Len(calculatedStrides[k]) :
            supportedAtCommit(k, i)

\* C3 amended: every brick with y > 0 committed through a candidate envelope
\* (not force-placed by the fallback) has, when committed, a support total of
\* at least 90% of its length.
C3_CandidateSupport ==
    historyAligned =>
        \A k \in StrideRange : \A i \in 1..Len(calculatedStrides[k]) :
            ~iterations[k].fallback => supportedAtCommit(k, i)

\* A candidate stride holds a brick above the foundation that is supported
\* only in part (it spans a head joint of the course below).
C3_Witness ==
    /\ historyAligned
    /\ \E k \in StrideRange : \E i \in 1..Len(calculatedStrides[k]) :
          /\ ~iterations[k].fallback
          /\ calculatedStrides[k][i].y > 0
          /\ supportTotalAtCommit(k, i) < calculatedStrides[k][i].length

\* C4 as stated: every brick of every stride, fallback strides included,
\* lies fully inside the stride's recorded envelope.
C4_Original ==
    \A k \in StrideRange : \A i \in 1..Len(calculatedStrides[k]) :
        insideEnvelope(calculatedStrides[k][i], envelopeOfStride(k))

\* C4 amended: every brick of a stride chosen from a candidate envelope lies
\* fully inside the recorded envelope, and so does the brick of a fallback
\* stride whenever it is no longer than envelopeWidth and envelopeHeight is
\* at least BRICK_HEIGHT.
C4_EnvelopeContainment ==
    historyAligned =>
        \A k \in StrideRange : \A i \in 1..Len(calculatedStrides[k]) :
            (\/ ~iterations[k].fallback
             \/ /\ calculatedStrides[k][i].length <= envWidth
                /\ BRICK_HEIGHT <= envHeight)
            => insideEnvelope(calculatedStrides[k][i], envelopeOfStride(k))

\* A fallback stride whose brick fits the envelope, after a candidate stride
\* of several bricks.
C4_Witness ==
    /\ historyAligned
    /\ \E k \in StrideRange :
          /\ iterations[k].fallback
          /\ calculatedStrides[k][1].length <= envWidth
          /\ BRICK_HEIGHT <= envHeight
          /\ calculatedStrides[k][1].x > 0
    /\ \E k \in StrideRange :
          ~iterations[k].fallback /\ Len(calculatedStrides[k]) >= 2

\* C5: the bottomY used by each iteration is at least the bottomY used by
\* the iteration before it.
C5_MonotonicFrontier ==
    \A k \in 1..(Len(iterations) - 1) :
        iterations[k].bottomMostY <= iterations[k + 1].bottomMostY

\* The frontier stayed on one course for two iterations and later rose.
C5_Witness ==
    /\ \E k \in 1..(Len(iterations) - 1) :
          iterations[k].bottomMostY = iterations[k + 1].bottomMostY
    /\ \E k \in 1..(Len(iterations) - 1) :
          iterations[k].bottomMostY < iterations[k + 1].bottomMostY

leftBehind(b) ==
    /\ insideEnvelope(b, envelopeOfStride(strideCount))
    /\ isBrickSupported(b, globallyPlacedBrickIds, <<>>, allWallBricks)

\* C7 as stated: right after any stride is committed, no uncommitted brick
\* inside its envelope passes the support test against the committed set.
C7_Original ==
    (strideCount > 0 /\ historyAligned) =>
        \A i \in 1..Len(curUnplaced) : ~leftBehind(curUnplaced[i])

\* C7 amended: right after a stride chosen from a candidate envelope is
\* committed, no uncommitted brick inside its envelope passes the support
\* test against the committed set.
C7_CandidateMaximal ==
    (strideCount > 0 /\ historyAligned /\ ~iterations[strideCount].fallback) =>
        \A i \in 1..Len(curUnplaced) : ~leftBehind(curUnplaced[i])

\* A candidate stride was committed and uncommitted bricks remain inside its
\* envelope (they fail the support test).
C7_Witness ==
    /\ strideCount > 0 /\ historyAligned
    /\ ~iterations[strideCount].fallback
    /\ Len(calculatedStrides[strideCount]) >= 2
    /\ \E i \in 1..Len(curUnplaced) :
          insideEnvelope(curUnplaced[i], envelopeOfStride(strideCount))

\* The bricks that were uncommitted when iteration k started, in input order.
unplacedBefore(k) ==
    LET wasUnplaced(b) == b.id \notin iterations[k].placedBefore
    IN  SelectSeq(allWallBricks, wasUnplaced)

\* b has the lowest (y, x) among the bricks of the list.
isLowestYX(b, bricks) ==
    \A i \in 1..Len(bricks) :
        b.y < bricks[i].y \/ (b.y = bricks[i].y /\ b.x <= bricks[i].x)

noCandidateAdmits(k) ==
    \A j \in 1..Len(iterations[k].options) : iterations[k].options[j].ids = <<>>

inGeneratorOrder ==
    allWallBricks = generateInitialBrickLayout(bondType, wallWidth, wallHeight)

\* C8 as stated: when no candidate admits a brick, the stride is the
\* singleton of the uncommitted brick with the lowest (y, x), whatever the
\* order of the input list.
C8_Original ==
    historyAligned =>
        \A k \in StrideRange :
            noCandidateAdmits(k) =>
                /\ Len(calculatedStrides[k]) = 1
                /\ isLowestYX(calculatedStrides[k][1], unplacedBefore(k))

\* C8 amended: when no candidate admits a brick, the stride is the singleton
\* of the first uncommitted brick in input-list order; that brick is the one
\* with the lowest (y, x) when the input list is in the generator's order.
C8_FallbackFirstUnplaced ==
    historyAligned =>
        \A k \in StrideRange :
            /\ iterations[k].fallback <=> noCandidateAdmits(k)
            /\ noCandidateAdmits(k) =>
                  /\ Len(calculatedStrides[k]) = 1
                  /\ calculatedStrides[k][1].id = unplacedBefore(k)[1].id
                  /\ inGeneratorOrder =>
                        isLowestYX(calculatedStrides[k][1], unplacedBefore(k))

\* The fallback ran on a list that is not in the generator's order, with
\* several bricks still uncommitted, and force-placed a brick that is not
\* the one with the lowest (y, x).
C8_Witness ==
    /\ historyAligned
    /\ ~inGeneratorOrder
    /\ \E k \in StrideRange :
          /\ noCandidateAdmits(k)
          /\ Len(unplacedBefore(k)) >= 3
          /\ calculatedStrides[k][1].id = unplacedBefore(k)[1].id
          /\ ~isLowestYX(calculatedStrides[k][1], unplacedBefore(k))

\* Option j of iteration k has the greatest count, and the lowest X among
\* the options with that count.
isFirstBest(k, j) ==
    LET opts == iterations[k].options IN
    \A j2 \in 1..Len(opts) :
        /\ Len(opts[j2].ids) <= Len(opts[j].ids)
        /\ Len(opts[j2].ids) = Len(opts[j].ids) => opts[j].startX <= opts[j2].startX

\* C9: in every iteration where some candidate admits a brick, the committed
\* stride is the tentative stride of a candidate with the greatest admitted
\* count, the one of lowest X among those, and its X is the envelope's minX.
C9_BestCandidate ==
    historyAligned =>
        \A k \in StrideRange :
            ~noCandidateAdmits(k) =>
                \E j \in 1..Len(iterations[k].options) :
                    /\ isFirstBest(k, j)
                    /\ idSeq(calculatedStrides[k]) = iterations[k].options[j].ids
                    /\ envelopeOfStride(k).minX = iterations[k].options[j].startX

\* An iteration in which two candidates tie on the greatest count and a
\* third admits fewer bricks.
C9_Witness ==
    /\ historyAligned
    /\ \E k \in StrideRange :
          LET opts == iterations[k].options IN
          \E j1, j2, j3 \in 1..Len(opts) :
              /\ j1 < j2
              /\ isFirstBest(k, j1)
              /\ Len(opts[j2].ids) = Len(opts[j1].ids)
              /\ opts[j2].ids # opts[j1].ids
              /\ Len(opts[j3].ids) < Len(opts[j1].ids)
              /\ Len(opts[j1].ids) >= 2

\* C10: the bricks of each returned stride are in (y, then x) ascending
\* order, orderInStride is the zero-based position in the stride and
\* strideIndex is the index of the stride in the strides list.
C10_StrideOrdering ==
    \A k \in StrideRange : \A i \in 1..Len(calculatedStrides[k]) :
        LET b == calculatedStrides[k][i] IN
        /\ b.orderInStride = i - 1
        /\ b.strideIndex = k - 1
        /\ i < Len(calculatedStrides[k]) =>
              LET n == calculatedStrides[k][i + 1] IN
              b.y < n.y \/ (b.y = n.y /\ b.x <= n.x)

\* A returned plan whose second or later stride spans two courses with two
\* bricks on one of them.
C10_Witness ==
    /\ pc = "returned"
    /\ \E k \in StrideRange :
          /\ k >= 2
          /\ \E i, j \in 1..Len(calculatedStrides[k]) :
                /\ i < j
                /\ calculatedStrides[k][i].y = calculatedStrides[k][j].y
          /\ \E i, j \in 1..Len(calculatedStrides[k]) :
                calculatedStrides[k][i].y < calculatedStrides[k][j].y

\* C11: the recorded envelope of every stride, candidate or fallback, has
\* minY equal to the bottomY of its iteration, which is the least y among
\* the bricks uncommitted at that moment; the first stride's envelope of a
\* non-empty brick set has minY = 0.
C11_EnvelopePinnedToBottom ==
    historyAligned =>
        \A k \in StrideRange :
            /\ envelopeOfStride(k).minY = iterations[k].bottomMostY
            /\ \A i \in 1..Len(unplacedBefore(k)) :
                  envelopeOfStride(k).minY <= unplacedBefore(k)[i].y
            /\ \E i \in 1..Len(unplacedBefore(k)) :
                  envelopeOfStride(k).minY = unplacedBefore(k)[i].y
            /\ k = 1 => envelopeOfStride(k).minY = 0

\* A fallback stride and a candidate stride were both recorded above the
\* foundation.
C11_Witness ==
    /\ historyAligned
    /\ \E k \in StrideRange :
          iterations[k].fallback /\ envelopeOfStride(k).minY > 0
    /\ \E k \in StrideRange :
          ~iterations[k].fallback /\ envelopeOfStride(k).minY > 0

\* C12: when envelopeWidth >= wallWidth and envelopeHeight >= BRICK_HEIGHT,
\* every brick of course 0 is committed in the first stride.
C12_WideEnvelopeCoversCourse ==
    (envWidth >= wallWidth /\ envHeight >= BRICK_HEIGHT /\ strideCount >= 1) =>
        \A i \in 1..Len(allWallBricks) :
            allWallBricks[i].y = 0 =>
                allWallBricks[i].id \in idsOf(calculatedStrides[1])

\* A first stride made with an envelope exactly as wide as the wall, over a
\* course 0 of at least two bricks.
C12_Witness ==
    /\ envWidth = wallWidth /\ envHeight >= BRICK_HEIGHT
    /\ strideCount >= 1
    /\ \E i \in 1..Len(allWallBricks) :
          allWallBricks[i].y = 0 /\ allWallBricks[i].x > 0

(* ----------------------- MasonryWall component ------------------------- *)
\* The recalculation effect of the component.  The five inputs of the effect
\* are bondType, wallWidth, wallHeight, envWidth (robotWidth) and envHeight
\* (robotHeight); allWallBricks is allBricksRef.current.  The initial sizes
\* are taken from the same small sets as the later changes.
MaxChanges == 3

ComponentWidths == {HALF_BRICK_LENGTH, 2 * HALF_BRICK_LENGTH}

ComponentHeights == {COURSE_HEIGHT, 2 * COURSE_HEIGHT}

ComponentEnvWidths == {HALF_BRICK_LENGTH, ROBOT_WIDTH}

ComponentEnvHeights == {BRICK_HEIGHT, ROBOT_HEIGHT}

\* The values a timer callback closes over.
configNow ==
    [bondType |-> bondType, wallWidth |-> wallWidth, wallHeight |-> wallHeight,
     robotWidth |-> envWidth, robotHeight |-> envHeight]

\* What the timer callback computes for a configuration.
recalculated(config) ==
    LET currentAllBricks ==
            generateInitialBrickLayout(config.bondType, config.wallWidth,
                                       config.wallHeight)
    IN  [bricks |-> currentAllBricks,
         plan |-> calculateWallStrides(currentAllBricks, config.robotWidth,
                                       config.robotHeight, config.wallWidth)]

\* Mutant of timeoutsAfterCleanup: the effect has no cleanup.
timeoutsAfterCleanup_noClear(pending, timeoutId) == pending

\* return () => clearTimeout(timeoutId)
timeoutsAfterCleanup(pending, timeoutId) == {t \in pending : t.id # timeoutId}

plannerUnused == <<globallyPlacedBrickIds, calculatedStrides, calculatedEnvelopes,
                   strideIndexCounter, iterations, layoutLocals, supportLocals>>

InitComponent ==
    /\ bondType \in BondType
    /\ wallWidth \in ComponentWidths
    /\ wallHeight \in ComponentHeights
    /\ envWidth \in ComponentEnvWidths
    /\ envHeight \in ComponentEnvHeights
    /\ allWallBricks = <<>>
    /\ isRecalculating = FALSE
    /\ strides = <<>>
    /\ strideEnvelopes = <<>>
    /\ pendingTimeouts = {}
    /\ effectDue = TRUE
    /\ effectRuns = 0
    /\ changes = 0
    /\ firedTimeouts = {}
    /\ clearedTimeouts = {}
    /\ globallyPlacedBrickIds = {}
    /\ calculatedStrides = <<>>
    /\ calculatedEnvelopes = <<>>
    /\ strideIndexCounter = 0
    /\ iterations = <<>>
    /\ courseIndex = 0
    /\ currentX = 0
    /\ brickInCourseIndex = 0
    /\ supportIdle
    /\ pc = "mounted"

\* A bond button or a size input changes one input of the effect; the
\* re-render leaves the effect to be run.
ChangeConfig ==
    /\ pc = "mounted"
    /\ changes < MaxChanges
    /\ \/ /\ bondType' \in BondType \ {bondType}
          /\ UNCHANGED <<wallWidth, wallHeight, envWidth, envHeight>>
       \/ /\ wallWidth' \in ComponentWidths \ {wallWidth}
          /\ UNCHANGED <<bondType, wallHeight, envWidth, envHeight>>
       \/ /\ wallHeight' \in ComponentHeights \ {wallHeight}
          /\ UNCHANGED <<bondType, wallWidth, envWidth, envHeight>>
       \/ /\ envWidth' \in ComponentEnvWidths \ {envWidth}
          /\ UNCHANGED <<bondType, wallWidth, wallHeight, envHeight>>
       \/ /\ envHeight' \in ComponentEnvHeights \ {envHeight}
          /\ UNCHANGED <<bondType, wallWidth, wallHeight, envWidth>>
    /\ changes' = changes + 1
    /\ effectDue' = TRUE
    /\ UNCHANGED <<allWallBricks, isRecalculating, strides, strideEnvelopes,
                   pendingTimeouts, effectRuns, firedTimeouts, clearedTimeouts,
                   pc, plannerUnused>>

\* The effect runs: the cleanup of its previous run clears that run's timer,
\* then setIsRecalculating(true) and a new timer for the current inputs.
RunEffect ==
    /\ pc = "mounted"
    /\ effectDue
    /\ LET afterCleanup == timeoutsAfterCleanup(pendingTimeouts, effectRuns)
       IN  /\ clearedTimeouts' =
                  clearedTimeouts \cup {t.id : t \in pendingTimeouts \ afterCleanup}
           /\ pendingTimeouts' =
                  afterCleanup \cup {[id |-> effectRuns + 1, config |-> configNow]}
    /\ isRecalculating' = TRUE
    /\ effectRuns' = effectRuns + 1
    /\ effectDue' = FALSE
    /\ UNCHANGED <<bondType, wallWidth, wallHeight, envWidth, envHeight,
                   allWallBricks, strides, strideEnvelopes, changes,
                   firedTimeouts, pc, plannerUnused>>

\* A pending timer fires: generate, plan, store, and (finally) clear the flag.
TimerFires ==
    /\ pc = "mounted"
    /\ \E t \in pendingTimeouts :
          LET result == recalculated(t.config) IN
          /\ allWallBricks' = result.bricks
          /\ strides' = result.plan.strides
          /\ strideEnvelopes' = result.plan.envelopes
          /\ pendingTimeouts' = pendingTimeouts \ {t}
          /\ firedTimeouts' = firedTimeouts \cup {t.id}
    /\ isRecalculating' = FALSE
    /\ UNCHANGED <<bondType, wallWidth, wallHeight, envWidth, envHeight,
                   effectDue, effectRuns, changes, clearedTimeouts, pc,
                   plannerUnused>>

NextComponent == ChangeConfig \/ RunEffect \/ TimerFires

SpecComponent == InitComponent /\ [][NextComponent]_vars

\* TimerFires can step exactly when a timer is pending: firing removes the
\* timer from pendingTimeouts.
timerPending == pc = "mounted" /\ pendingTimeouts # {}

\* The effect is run after every render that asks for it, and a pending
\* timer fires.  The second condition is WF_vars(TimerFires) written out,
\* with timerPending for ENABLED <<TimerFires>>_vars.
SpecComponentFair ==
    /\ SpecComponent
    /\ WF_vars(RunEffect)
    /\ ([]<>(~timerPending) \/ []<><<TimerFires>>_vars)

(* --------------------- properties of the generated layout --------------- *)
numCourses == numCoursesOf(wallHeight)

Courses == 0..(numCourses - 1)

\* The bricks of course c, in the order they were pushed.
courseBricks(c) == SelectSeq(allWallBricks, LAMBDA b : b.y = c * COURSE_HEIGHT)

lastOf(s) == s[Len(s)]

rightEnd(b) == b.x + b.length

\* generateInitialBrickLayout has returned its list.
laid == pc = "laid"

\* C13 (as stated): for every bond type and every positive wallWidth, each
\* course emitted by generateInitialBrickLayout reaches the wall's right edge
\* exactly: the last brick of the course satisfies x + length = wallWidth.
C13_Original ==
    laid =>
        \A c \in Courses :
            /\ courseBricks(c) # <<>>
            /\ rightEnd(lastOf(courseBricks(c))) = wallWidth

\* Length of the opening brick of course c when the first-choice brick of a
\* non-closer course (a full brick) does not fit but a half brick does.
narrowOpeningLength(c) ==
    IF bondType = "english_cross" /\ c % 4 \in {1, 3} THEN CUSTOM_BRICK_ECB1_LENGTH
    ELSE IF bondType = "flemish" /\ c % 2 = 1 THEN CUSTOM_BRICK_FLEMISH_HEADER_LENGTH
    ELSE HALF_BRICK_LENGTH

\* C14 (as stated): for wallWidth = 150, every course consists of exactly one
\* brick, at x = 0 with length 150, and no head joint is inserted.
C14_Original ==
    (laid /\ wallWidth = 150) =>
        \A c \in Courses :
            /\ Len(courseBricks(c)) = 1
            /\ courseBricks(c)[1].x = 0
            /\ courseBricks(c)[1].length = 150

\* C14 (amended): for wallWidth = 150, every course consists of exactly two
\* bricks separated by one head joint: an opening brick at x = 0 (a half
\* brick, or the 40 mm / 45 mm closer in the courses that open with one) and
\* a second brick that starts HEAD_JOINT after it and ends at x = 150.
C14_NarrowWallTwoBricks ==
    (laid /\ wallWidth = 150) =>
        \A c \in Courses :
            LET bs == courseBricks(c) IN
            /\ Len(bs) = 2
            /\ bs[1].x = 0
            /\ bs[1].length = narrowOpeningLength(c)
            /\ bs[2].x = rightEnd(bs[1]) + HEAD_JOINT
            /\ rightEnd(bs[2]) = 150

C14_Witness ==
    /\ laid
    /\ wallWidth = 150
    /\ bondType = "english_cross"
    /\ numCourses >= 2
    /\ Len(allWallBricks) = 2 * numCourses
    /\ courseBricks(1)[1].length = CUSTOM_BRICK_ECB1_LENGTH

\* The span between a brick's left end and the wall's right edge.
remainingSpan(b) == wallWidth - b.x

isFullBrick(b) == b.type = "full" /\ b.length = FULL_BRICK_LENGTH

isHalfBrick(b) == b.type = "half" /\ b.length = HALF_BRICK_LENGTH

\* A wall-edge cut piece of exactly the remaining span.
isEdgeCut(b) == b.type = "custom_end" /\ b.length = remainingSpan(b)

\* Full if the remaining span allows, else half, else a cut of the span.
isFullDegraded(b) ==
    IF remainingSpan(b) >= FULL_BRICK_LENGTH THEN isFullBrick(b)
    ELSE IF remainingSpan(b) >= HALF_BRICK_LENGTH THEN isHalfBrick(b)
    ELSE isEdgeCut(b)

\* Half if the remaining span allows, else a cut of the span.
isHalfDegraded(b) ==
    IF remainingSpan(b) >= HALF_BRICK_LENGTH THEN isHalfBrick(b)
    ELSE isEdgeCut(b)

\* C15: for the stretcher bond, when the wall is at least one full brick
\* wide, every even course starts with a full brick (x = 0, length 210) and
\* every odd course starts with a half brick (x = 0, length 100); every later
\* brick of a course is a full brick if the remaining span is at least 210,
\* else a half brick if it is at least 100, else a cut piece whose length is
\* exactly the remaining span.
C15_StretcherPattern ==
    (laid /\ bondType = "stretcher" /\ wallWidth >= FULL_BRICK_LENGTH) =>
        \A c \in Courses :
            LET bs == courseBricks(c) IN
            /\ bs # <<>>
            /\ bs[1].x = 0
            /\ IF c % 2 = 0 THEN isFullBrick(bs[1]) ELSE isHalfBrick(bs[1])
            /\ \A i \in 2..Len(bs) : isFullDegraded(bs[i])

C15_Witness ==
    /\ laid
    /\ bondType = "stretcher"
    /\ wallWidth >= FULL_BRICK_LENGTH
    /\ numCourses >= 2
    /\ isHalfBrick(courseBricks(1)[1])
    /\ \E i \in 2..Len(courseBricks(1)) : isFullBrick(courseBricks(1)[i])
    /\ \E i \in 2..Len(courseBricks(0)) : isHalfBrick(courseBricks(0)[i])
    /\ \E i \in 2..Len(courseBricks(1)) :
           /\ courseBricks(1)[i].type = "custom_end"
           /\ courseBricks(1)[i].length < HALF_BRICK_LENGTH

\* The fixed-length closer if the remaining span allows, else a cut of the span.
isCloserDegraded(b, type, length) ==
    IF remainingSpan(b) >= length THEN b.type = type /\ b.length = length
    ELSE isEdgeCut(b)

\* The English cross pattern of a course, by its pattern type.
englishCrossCourse(bs, patternType) ==
    /\ bs # <<>>
    /\ bs[1].x = 0
    /\ CASE patternType = 0 ->
              \A i \in 1..Len(bs) : isFullDegraded(bs[i])
         [] patternType \in {1, 3} ->
              /\ isCloserDegraded(bs[1], "custom_40", CUSTOM_BRICK_ECB1_LENGTH)
              /\ \A i \in 2..Len(bs) : isHalfDegraded(bs[i])
         [] patternType = 2 ->
              /\ isHalfDegraded(bs[1])
              /\ \A i \in 2..Len(bs) : isFullDegraded(bs[i])

\* C16: for the English cross bond the course pattern repeats with period 4
\* in the course index: courses with index mod 4 = 0 use full bricks
\* throughout (half or cut only where a full brick no longer fits); index
\* mod 4 = 1 or 3 start with a 40 mm cut piece followed only by half bricks
\* (a cut of the remaining span where the brick no longer fits); index
\* mod 4 = 2 start with a half brick followed by full bricks (half or cut
\* where they no longer fit).  Courses four apart are identical but for y.
C16_EnglishCrossPattern ==
    (laid /\ bondType = "english_cross") =>
        /\ \A c \in Courses : englishCrossCourse(courseBricks(c), c % 4)
        /\ \A c \in Courses :
               (c + 4) \in Courses =>
                   /\ Len(courseBricks(c + 4)) = Len(courseBricks(c))
                   /\ \A i \in 1..Len(courseBricks(c)) :
                          /\ courseBricks(c + 4)[i].x = courseBricks(c)[i].x
                          /\ courseBricks(c + 4)[i].length = courseBricks(c)[i].length
                          /\ courseBricks(c + 4)[i].type = courseBricks(c)[i].type

C16_Witness ==
    /\ laid
    /\ bondType = "english_cross"
    /\ numCourses >= 8
    /\ \A c \in Courses : Len(courseBricks(c)) >= 2
    /\ isFullBrick(courseBricks(4)[2])
    /\ courseBricks(5)[1].type = "custom_40"
    /\ isHalfBrick(courseBricks(5)[2])
    /\ isHalfBrick(courseBricks(6)[1])
    /\ isFullBrick(courseBricks(6)[2])
    /\ courseBricks(7)[1].length = CUSTOM_BRICK_ECB1_LENGTH
    /\ lastOf(courseBricks(7)).type = "custom_end"

\* C17: for the Flemish bond, even courses alternate full, half, full, half
\* starting with a full brick at x = 0, and odd courses start with a 45 mm
\* header cut piece at x = 0 and then alternate half, full, half, full; where
\* the pattern's brick does not fit the remaining span it degrades to a half
\* brick or to a cut piece of exactly the remaining span.
C17_FlemishPattern ==
    (laid /\ bondType = "flemish") =>
        \A c \in Courses :
            LET bs == courseBricks(c) IN
            /\ bs # <<>>
            /\ bs[1].x = 0
            /\ IF c % 2 = 0
               THEN \A i \in 1..Len(bs) :
                        IF i % 2 = 1 THEN isFullDegraded(bs[i])
                        ELSE isHalfDegraded(bs[i])
               ELSE /\ isCloserDegraded(bs[1], "custom_45",
                                        CUSTOM_BRICK_FLEMISH_HEADER_LENGTH)
                    /\ \A i \in 2..Len(bs) :
                           IF i % 2 = 0 THEN isHalfDegraded(bs[i])
                           ELSE isFullDegraded(bs[i])

C17_Witness ==
    /\ laid
    /\ bondType = "flemish"
    /\ numCourses >= 2
    /\ Len(courseBricks(0)) >= 4
    /\ Len(courseBricks(1)) >= 4
    /\ isFullBrick(courseBricks(0)[1])
    /\ isHalfBrick(courseBricks(0)[2])
    /\ isHalfBrick(courseBricks(0)[3])
    /\ courseBricks(0)[4].type = "custom_end"
    /\ courseBricks(1)[1].type = "custom_45"
    /\ isHalfBrick(courseBricks(1)[2])
    /\ isFullBrick(courseBricks(1)[3])
    /\ isHalfBrick(courseBricks(1)[4])

\* Each brick after the first of its course starts HEAD_JOINT to the right
\* of the previous brick's right end.
consecutiveSpacing ==
    \A c \in Courses :
        \A i \in 2..Len(courseBricks(c)) :
            courseBricks(c)[i].x = rightEnd(courseBricks(c)[i - 1]) + HEAD_JOINT

\* The inner loop of the current course has just ended.
courseFinished ==
    /\ pc = "layout"
    /\ courseIndex < numCourses
    /\ currentX >= wallWidth
    /\ courseBricks(courseIndex) # <<>>

\* The cursor stands at the final brick's right end: no joint followed it.
noJointAfterFinal ==
    courseFinished => currentX = rightEnd(lastOf(courseBricks(courseIndex)))

\* C18 (as stated): in every course, each brick after the first starts
\* exactly HEAD_JOINT (10 mm) to the right of the previous brick's right end
\* (next.x = prev.x + prev.length + 10), so bricks of a course never overlap,
\* and no joint is added after the final brick of the course.
C18_Original ==
    /\ consecutiveSpacing
    /\ noJointAfterFinal

\* C19: every brick emitted by generateInitialBrickLayout has strictly
\* positive length and lies inside the wall horizontally: x >= 0 and
\* x + length <= wallWidth, for every bond type and wall size.
C19_BricksInsideWall ==
    (pc \in {"layout", "laid"}) =>
        \A i \in 1..Len(allWallBricks) :
            /\ allWallBricks[i].length > 0
            /\ allWallBricks[i].x >= 0
            /\ rightEnd(allWallBricks[i]) <= wallWidth

C19_Witness ==
    /\ laid
    /\ numCourses >= 2
    /\ \E i \in 1..Len(allWallBricks) :
           /\ allWallBricks[i].type = "custom_end"
           /\ allWallBricks[i].length <= 5
           /\ allWallBricks[i].x > 0
           /\ rightEnd(allWallBricks[i]) = wallWidth
    /\ \E i \in 1..Len(allWallBricks) :
           /\ allWallBricks[i].type = "custom_end"
           /\ allWallBricks[i].x = 0

\* C20: the ids assigned by generateInitialBrickLayout are pairwise distinct
\* within one layout, and each id encodes the brick's course index and its
\* zero-based position within that course: the k-th brick (by x) of course c
\* has id brick-c-k.
C20_IdsEncodePosition ==
    (pc \in {"layout", "laid"}) =>
        /\ \A i, j \in 1..Len(allWallBricks) :
               i # j => allWallBricks[i].id # allWallBricks[j].id
        /\ \A c \in Courses :
               \A k \in 1..Len(courseBricks(c)) :
                   /\ courseBricks(c)[k].id = <<c, k - 1>>
                   /\ Cardinality({j \in 1..Len(courseBricks(c)) :
                          courseBricks(c)[j].x < courseBricks(c)[k].x}) = k - 1

C20_Witness ==
    /\ laid
    /\ numCourses >= 3
    /\ Len(courseBricks(2)) >= 3
    /\ Len(courseBricks(0)) # Len(courseBricks(1))
    /\ courseBricks(2)[3].id = <<2, 2>>
    /\ courseBricks(1)[3].id = <<1, 2>>

\* The y values of the emitted bricks.
emittedYs == {allWallBricks[i].y : i \in 1..Len(allWallBricks)}

\* C21: generateInitialBrickLayout emits bricks for exactly
\* floor(wallHeight / 62.5) courses when wallWidth > 0: the set of y values
\* of the emitted bricks is exactly { c * 62.5 : 0 <= c < floor(wallHeight /
\* 62.5) }, so every y is a multiple of the course height and the lowest
\* course is at y = 0.
C21_CourseCount ==
    (laid /\ wallWidth > 0) =>
        /\ emittedYs =
               {c * COURSE_HEIGHT : c \in 0..((wallHeight \div COURSE_HEIGHT) - 1)}
        /\ \A y \in emittedYs : y % COURSE_HEIGHT = 0
        /\ wallHeight >= COURSE_HEIGHT => 0 \in emittedYs

C21_Witness ==
    /\ laid
    /\ wallWidth > 0
    /\ wallHeight % COURSE_HEIGHT # 0
    /\ wallHeight > COURSE_HEIGHT
    /\ Cardinality(emittedYs) = 3
    /\ 2 * COURSE_HEIGHT \in emittedYs

(* ----------------------- degenerate dimensions -------------------------- *)
degenerateEnvelope == envWidth <= 0 \/ envHeight <= 0

\* C22 (as stated): calculateWallStrides called with a zero or negative
\* envelope width or envelope height returns an empty stride list (and an
\* empty envelope map) instead of raising.
C22_Original ==
    (pc = "returned" /\ degenerateEnvelope) =>
        /\ calculatedStrides = <<>>
        /\ calculatedEnvelopes = <<>>

degenerateWall == wallWidth <= 0 \/ wallHeight < COURSE_HEIGHT

\* C23: generateInitialBrickLayout called with a zero or negative wallWidth,
\* or with a wallHeight below one course height (including zero and
\* negative), returns an empty brick list and does not raise: no brick is
\* ever pushed, and the loops always have a next step until the return.
C23_DegenerateWallEmpty ==
    (degenerateWall /\ pc \in {"layout", "laid"}) =>
        /\ allWallBricks = <<>>
        /\ pc = "layout" => ENABLED NextLayout

C23_Witness ==
    /\ laid
    /\ wallWidth < 0
    /\ wallHeight >= 2 * COURSE_HEIGHT
    /\ courseIndex = wallHeight \div COURSE_HEIGHT
    /\ allWallBricks = <<>>

(* --------------------- further planner properties ----------------------- *)
\* Stride k holds a brick of the bottom-most course of its iteration.
takesFromBottomCourse(k) ==
    \E i \in 1..Len(calculatedStrides[k]) :
        calculatedStrides[k][i].y = iterations[k].bottomMostY

\* C25 (as stated): every stride chosen from a candidate envelope places at
\* least one brick on the current bottom-most course: a candidate whose
\* admitted bricks include no brick with y = bottomY is never selected.
C25_Original ==
    historyAligned =>
        \A k \in StrideRange :
            ~iterations[k].fallback => takesFromBottomCourse(k)

\* The input brick with the given id.
brickById(id) ==
    CHOOSE b \in {allWallBricks[i] : i \in 1..Len(allWallBricks)} : b.id = id

\* Length of the i-th brick of candidate j of iteration k that rests on
\* bricks of the course below committed before the iteration or admitted
\* earlier in the same tentative stride.
supportTotalInAttempt(k, j, i) ==
    LET ids == iterations[k].options[j].ids
        b == brickById(ids[i])
        earlier == iterations[k].placedBefore \cup {ids[n] : n \in 1..(i - 1)}
        below(c) == c.y = b.y - COURSE_HEIGHT /\ c.id \in earlier
    IN  sumOverlaps(SelectSeq(allWallBricks, below), b)

\* Every brick above the foundation of every tentative stride rests on at
\* least num/den of its length.
attemptsSupportedBy(num, den) ==
    \A k \in 1..Len(iterations) :
        \A j \in 1..Len(iterations[k].options) :
            \A i \in 1..Len(iterations[k].options[j].ids) :
                LET b == brickById(iterations[k].options[j].ids[i]) IN
                b.y > 0 => den * supportTotalInAttempt(k, j, i) >= num * b.length

keepsInputFields(b) ==
    LET src == brickById(b.id) IN
    /\ b.x = src.x
    /\ b.y = src.y
    /\ b.length = src.length
    /\ b.type = src.type

clampToWall(v) ==
    LET upper == IF v <= wallWidth - envWidth THEN v ELSE wallWidth - envWidth
    IN  IF upper >= 0 THEN upper ELSE 0

\* The uncommitted bricks of the bottom-most course of iteration k.
frontierBricks(k) ==
    {b \in {unplacedBefore(k)[i] : i \in 1..Len(unplacedBefore(k))} :
        b.y = iterations[k].bottomMostY}

expectedCandidates(k) ==
    {clampToWall(b.x) : b \in frontierBricks(k)}
        \cup {clampToWall(b.x + b.length - envWidth) : b \in frontierBricks(k)}

C29_StretcherNeverFallsBack ==
    (/\ bondType = "stretcher"
     /\ envWidth >= FULL_BRICK_LENGTH
     /\ envHeight >= BRICK_HEIGHT) =>
        /\ \A k \in 1..Len(iterations) : ~iterations[k].fallback
        /\ historyAligned =>
               \A k \in StrideRange : \A i \in 1..Len(calculatedStrides[k]) :
                   supportedAtCommit(k, i)

\* A stretcher wall of several courses planned with the smallest envelope of
\* the claim, returned, with a brick above the foundation that spans a head
\* joint of the course below.
C29_Witness ==
    /\ pc = "returned"
    /\ bondType = "stretcher"
    /\ envWidth = FULL_BRICK_LENGTH
    /\ envHeight = BRICK_HEIGHT
    /\ historyAligned
    /\ strideCount >= 6
    /\ \E k \in StrideRange :
           /\ calculatedStrides[k][1].y > 0
           /\ supportTotalAtCommit(k, 1) < calculatedStrides[k][1].length

(* ------------------------- the support test ----------------------------- *)
\* Bricks of the course directly below the tested brick that are globally
\* committed or already admitted to the current stride.
countedSupports ==
    {c \in {allWallBricks[i] : i \in 1..Len(allWallBricks)} :
        /\ c.y = testedBrick.y - COURSE_HEIGHT
        /\ \/ c.id \in globallyPlacedBrickIds
           \/ c.id \in idsOf(strideSoFar)}

\* Length of the tested brick's x-span covered by those bricks, every
\* millimetre counted once however many bricks cover it.
coveredLength ==
    Cardinality({p \in testedBrick.x..(rightEnd(testedBrick) - 1) :
                    \E c \in countedSupports : c.x <= p /\ p < rightEnd(c)})

settledOnLatest ==
    /\ ~effectDue
    /\ pendingTimeouts = {}
    /\ isRecalculating = FALSE
    /\ allWallBricks = recalculated(configNow).bricks
    /\ strides = recalculated(configNow).plan.strides
    /\ strideEnvelopes = recalculated(configNow).plan.envelopes

============================================================================
